---- MODULE Spec2Model ----
(***************************************************************************)
(* Model of the archive-merge pipeline of ASI-Intel-Dash                   *)
(* (src/automated_update.py): the SQLite archive table keyed by headline,  *)
(* the live-view projection and the publish sequence against the remote    *)
(* repository, for several runners that each keep their own working        *)
(* directory between runs.                                                 *)
(*                                                                         *)
(* Two specifications share the module:                                    *)
(*   Spec      - the pipeline (__main__) run by the runners;               *)
(*   SpecStore - the archive store alone: any sequence of init_db and      *)
(*               add_articles_to_db calls on one connection.               *)
(***************************************************************************)
EXTENDS Integers, Sequences, FiniteSets, TLC

(***************************************************************************)
(* Bounds of the model.                                                    *)
(***************************************************************************)
\* longest batch the classifier (or a caller of the store) hands over
MaxBatch == 2
\* number of runs started in one behaviour, over all runners
MaxRuns == 2
\* number of store calls in one behaviour of SpecStore
MaxCalls == 4

\* LIVE_ARTICLE_LIMIT (150 in the source), scaled so that truncation happens
LIVE_ARTICLE_LIMIT == 2

\* the machines that run the pipeline; each has its own working directory
Runners == {"r1", "r2"}

(***************************************************************************)
(* Article records.                                                        *)
(***************************************************************************)
FIELDS == {"headline", "type", "countries", "category", "date", "body"}

\* date is TEXT; SQLite orders it by string comparison.  The model's dates
\* are ISO-8601 strings of one shape, ordered as their ranks below.
DateRank(d) ==
    CASE d = "2024-01-01T00:00:00Z" -> 1
      [] d = "2024-01-02T00:00:00Z" -> 2
      [] d = "2024-01-03T00:00:00Z" -> 3

A1 == [headline |-> "h1", type |-> "high priority", countries |-> <<"us">>,
       category |-> "Trade", date |-> "2024-01-02T00:00:00Z", body |-> "b1"]
\* the headline of A1 reported again with other field values
A1x == [headline |-> "h1", type |-> "medium priority", countries |-> <<>>,
        category |-> "Conflict", date |-> "2024-01-03T00:00:00Z", body |-> "b1x"]
A2 == [headline |-> "h2", type |-> "forecast alert", countries |-> <<"us", "cn">>,
       category |-> "Trade", date |-> "2024-01-01T00:00:00Z", body |-> "b2"]
\* same date as A1
A3 == [headline |-> "h3", type |-> "strategic watch", countries |-> <<>>,
       category |-> "Conflict", date |-> "2024-01-02T00:00:00Z", body |-> "b3"]
AIrr == [headline |-> "h4", type |-> "irrelevant", countries |-> <<>>,
         category |-> "n/a", date |-> "2024-01-03T00:00:00Z", body |-> "b4"]
\* a classified record that lacks the body field
ABad == [headline |-> "h2", type |-> "high priority", countries |-> <<"cn">>,
         category |-> "Trade", date |-> "2024-01-03T00:00:00Z"]

\* what callers hand to the store in SpecStore
StoreArticles == {A1, A1x, A2, ABad}
Batches == UNION {[1..n -> StoreArticles] : n \in 0..MaxBatch}

\* what the classifier answers in Spec
ClassifiedArticles == {A1, A2, A3, AIrr, ABad}
Answers == UNION {[1..n -> ClassifiedArticles] : n \in 0..MaxBatch}

Range(s) == {s[i] : i \in 1..Len(s)}

(***************************************************************************)
(* json.dumps / json.loads of the countries list.  The text is modelled as *)
(* its token sequence: "[", the items separated by ",", "]".               *)
(***************************************************************************)
RECURSIVE JsonItems(_)
JsonItems(lst) ==
    IF lst = <<>> THEN <<>>
    ELSE IF Len(lst) = 1 THEN <<lst[1]>>
    ELSE <<lst[1], ",">> \o JsonItems(Tail(lst))

JsonDumps(lst) == <<"[">> \o JsonItems(lst) \o <<"]">>

JsonLoads(txt) ==
    LET inner == SubSeq(txt, 2, Len(txt) - 1)
    IN  [i \in 1..((Len(inner) + 1) \div 2) |-> inner[2 * i - 1]]

(***************************************************************************)
(* The articles table.  A table is the sequence of its rows in rowid       *)
(* (insertion) order; headline is the PRIMARY KEY.                         *)
(***************************************************************************)
\* the parameter tuple of the INSERT statement; building it reads all six
\* fields of the article (KeyError when one is missing)
WellFormed(article) == FIELDS \subseteq DOMAIN article

RowOf(article) ==
    [headline |-> article.headline, type |-> article.type,
     countries |-> JsonDumps(article.countries), category |-> article.category,
     date |-> article.date, body |-> article.body]

HasHeadline(rows, h) == \E i \in 1..Len(rows) : rows[i].headline = h

\* INSERT with no conflict clause on a table without the key
InsertPlain(rows, row) == Append(rows, row)

\* INSERT OR REPLACE: the conflicting row is deleted and the new one added
InsertOrReplace(rows, row) ==
    Append(SelectSeq(rows, LAMBDA r : r.headline # row.headline), row)

\* INSERT OR IGNORE INTO articles ... with headline TEXT PRIMARY KEY
InsertOrIgnore(rows, row) ==
    IF HasHeadline(rows, row.headline) THEN rows ELSE Append(rows, row)

\* the loop with a counter that counts every executed INSERT
RECURSIVE AddLoopCountAll(_, _, _)
AddLoopCountAll(rows, articles, count) ==
    IF articles = <<>> THEN [rows |-> rows, count |-> count, raised |-> FALSE]
    ELSE IF ~WellFormed(Head(articles))
         THEN [rows |-> rows, count |-> count, raised |-> TRUE]
    ELSE AddLoopCountAll(InsertOrIgnore(rows, RowOf(Head(articles))),
                         Tail(articles), count + 1)

\* The loop of add_articles_to_db over the connection's view of the table.
\* Result: the rows after the loop, new_articles_count, and whether the loop
\* ran to the end (raised = TRUE: an article lacked a field; the rows
\* inserted before it stay in the open transaction, nothing is committed).
RECURSIVE AddLoop(_, _, _)
AddLoop(rows, articles, count) ==
    IF articles = <<>> THEN [rows |-> rows, count |-> count, raised |-> FALSE]
    ELSE IF ~WellFormed(Head(articles))
         THEN [rows |-> rows, count |-> count, raised |-> TRUE]
    ELSE LET after == InsertOrIgnore(rows, RowOf(Head(articles)))
         IN  AddLoop(after, Tail(articles),
                     IF Len(after) > Len(rows) THEN count + 1 ELSE count)

add_articles_to_db(rows, articles) == AddLoop(rows, articles, 0)

\* add_articles_to_db when the k-th cursor.execute raises a storage error
\* (sqlite3.Error): the loop stops there, before the commit
Interrupted(rows, articles, k) ==
    [AddLoop(rows, SubSeq(articles, 1, k - 1), 0) EXCEPT !.raised = TRUE]

\* one row turned back into a dictionary
ArticleOf(row) ==
    [headline |-> row.headline, type |-> row.type,
     countries |-> JsonLoads(row.countries), category |-> row.category,
     date |-> row.date, body |-> row.body]

\* a SELECT without the ORDER BY clause: rowid order
SortByRowid(rows) == rows

\* ORDER BY date DESC; rows of equal date come out in rowid order
RECURSIVE SortByDateDesc(_)
SortByDateDesc(rows) ==
    IF rows = <<>> THEN <<>>
    ELSE LET sorted == SortByDateDesc(SubSeq(rows, 1, Len(rows) - 1))
             last == rows[Len(rows)]
             k == Cardinality({i \in 1..Len(sorted) :
                                 DateRank(sorted[i].date) >= DateRank(last.date)})
         IN  SubSeq(sorted, 1, k) \o <<last>> \o SubSeq(sorted, k + 1, Len(sorted))

get_all_articles_from_db(rows) ==
    LET sorted == SortByDateDesc(rows)
    IN  [i \in 1..Len(sorted) |-> ArticleOf(sorted[i])]

\* a projection that forgets the limit
SliceAll(lst, n) == lst

\* all_articles[:LIVE_ARTICLE_LIMIT]
Slice(lst, n) ==
    IF n >= 0 THEN SubSeq(lst, 1, IF n < Len(lst) THEN n ELSE Len(lst))
    ELSE SubSeq(lst, 1, IF Len(lst) + n > 0 THEN Len(lst) + n ELSE 0)

(***************************************************************************)
(* The remote repository (a blob per path, each with its blob sha).        *)
(***************************************************************************)
NoFile == [exists |-> FALSE, content |-> <<>>]

\* get_file_from_github returns (None, None) on a 404
NoneSha == <<"none", <<>>>>

\* file_content.sha: the blob sha, a hash of the content (taken as injective)
Sha(file) == IF file.exists THEN <<"blob", file.content>> ELSE NoneSha

\* a write that ignores the version of the file it replaces
PutUnchecked(remote, sha) == TRUE

\* commit_file_to_github: update_file(..., sha) is accepted when sha is the
\* blob sha of the file in the repository; create_file when there is no file
PutAccepted(remote, sha) ==
    IF sha # NoneSha THEN remote.exists /\ Sha(remote) = sha
    ELSE ~remote.exists

(***************************************************************************)
(* The classifier's answer: a text that json.loads parses to a list of     *)
(* records, or a text it rejects (items: the records readable in it).      *)
(***************************************************************************)
Responses ==
    {[parses |-> TRUE, items |-> b] : b \in Answers}
        \cup {[parses |-> FALSE, items |-> <<>>], [parses |-> FALSE, items |-> <<A1>>]}

\* a parser that keeps whatever records it can read from a rejected text
ParseLenient(resp) == [kind |-> "list", items |-> resp.items]

\* reformat_with_gemini: json.loads(response.text.strip()), None on a
\* JSONDecodeError
ParseResponse(resp) ==
    IF resp.parses THEN [kind |-> "list", items |-> resp.items]
    ELSE [kind |-> "none", items |-> <<>>]

\* the environment the script is started in: which variables are set
Environments ==
    [NEWS_API_KEY : BOOLEAN, GEMINI_API_KEY : BOOLEAN, GITHUB_PAT : BOOLEAN]

\* a credential check that forgets the repository token
CredentialsWithoutPat(env) == env.NEWS_API_KEY /\ env.GEMINI_API_KEY

\* all([NEWS_API_KEY, GEMINI_API_KEY, GITHUB_PAT])
CredentialsPresent(env) ==
    env.NEWS_API_KEY /\ env.GEMINI_API_KEY /\ env.GITHUB_PAT

\* how many articles fetch_news may return (the list is modelled by its length)
FetchSizes == {0, 1}

\* a test that takes every list for a non-empty one
AnyList(raw_news) == TRUE

\* truth value of the fetched list: `if raw_news:` in __main__ and
\* `if not raw_news_data:` in reformat_with_gemini
HasArticles(raw_news) == raw_news > 0

\* truth value of processed_data / relevant_new_data
Truthy(data) == data.kind = "list" /\ data.items # <<>>

\* a filter that keeps every record
KeepAll(items) == items

\* [item for item in processed_data if item.get('type') != 'irrelevant']
Relevant(items) == SelectSeq(items, LAMBDA item : item.type # "irrelevant")

VARIABLES
    remoteDb,   \* DashData/archive.db in the repository
    remoteJson, \* DashData/data.json in the repository
    localDb,    \* archive.db in each runner's working directory
    run,        \* each runner's process: where it stands and its variables
    runs,       \* runs started so far
    sDisk,      \* SpecStore: the committed table
    sConn,      \* SpecStore: the table as the connection sees it
    sLast,      \* SpecStore: the last call and its result
    sPrev,      \* SpecStore: the call before it
    sCalls,     \* SpecStore: calls made so far
    retry,      \* SpecRetry: a merge that fails, the exit, and the next run
    proj,       \* SpecSlice: an archive, a limit and the live view of them
    seed        \* SpecSeed: the seed script's process and its files

pipeVars == <<remoteDb, remoteJson, localDb, run, runs>>
storeVars == <<sDisk, sConn, sLast, sPrev, sCalls>>
auxVars == <<retry, proj, seed>>
vars == <<pipeVars, storeVars, auxVars>>

NoTable == [exists |-> FALSE, rows |-> <<>>]

NoCall == [op |-> "none", batch |-> <<>>, count |-> 0, raised |-> FALSE]

\* a process that is not running
NoRun ==
    [pc |-> "idle",             \* the call the run makes next
     db_sha |-> NoneSha,        \* sha captured with the archive download
     json_sha |-> NoneSha,      \* sha captured before the live-view commit
     newly_added_count |-> -1,  \* result of add_articles_to_db, -1 before it
     live_json_data |-> <<>>,   \* the live view computed by the run
     outcome |-> "none",        \* how the last run ended: "ok" or "error"
     llm |-> "unset",           \* what the classifier answered
     puts |-> 0,                \* remote writes attempted
     wrote |-> {},              \* remote files written
     jsonAtDownload |-> NoneSha,  \* sha of data.json at the archive download
     missing |-> FALSE,         \* a credential was absent at the start
     raw_news |-> -1]           \* length of the fetched list, -1 before it

\* no merge under way
NoRetry ==
    [phase |-> "none", before |-> <<>>, batch |-> <<>>, disk |-> <<>>,
     conn |-> <<>>, partial |-> 0, count |-> 0]

NoProj == [archive |-> <<>>, limit |-> 0, live |-> <<>>, done |-> FALSE]

\* old_data.json is absent
NoJson == [exists |-> FALSE, data |-> <<>>]

NoSeed ==
    [pc |-> "none", file |-> NoJson, disk |-> NoTable, conn |-> NoTable,
     out |-> "none"]

InitMain ==
    /\ remoteDb = NoFile
    /\ remoteJson = NoFile
    /\ localDb = [r \in Runners |-> NoTable]
    /\ run = [r \in Runners |-> NoRun]
    /\ runs = 0
    /\ sDisk = NoTable
    /\ sConn = NoTable
    /\ sLast = NoCall
    /\ sPrev = NoCall
    /\ sCalls = 0

Init ==
    /\ InitMain
    /\ retry = NoRetry
    /\ proj = NoProj
    /\ seed = NoSeed

(***************************************************************************)
(* SpecStore: the archive store on its own.                                *)
(***************************************************************************)
\* init_db(conn): CREATE TABLE IF NOT EXISTS, then commit
StoreInitDb ==
    /\ sCalls < MaxCalls
    /\ sConn' = [exists |-> TRUE, rows |-> sConn.rows]
    /\ sDisk' = sConn'
    /\ sLast' = [op |-> "init", batch |-> <<>>, count |-> 0, raised |-> FALSE]
    /\ sPrev' = sLast
    /\ sCalls' = sCalls + 1
    /\ UNCHANGED <<pipeVars, auxVars>>

\* add_articles_to_db(conn, batch); without the table the first INSERT
\* raises
StoreAdd ==
    /\ sCalls < MaxCalls
    /\ \E batch \in Batches :
       \E res \in {IF ~sConn.exists
                   THEN [rows |-> sConn.rows, count |-> 0,
                         raised |-> batch # <<>>]
                   ELSE add_articles_to_db(sConn.rows, batch)} :
         /\ sConn' = [sConn EXCEPT !.rows = res.rows]
         /\ sDisk' = IF res.raised THEN sDisk ELSE sConn'
         /\ sLast' = [op |-> "add", batch |-> batch, count |-> res.count,
                      raised |-> res.raised]
    /\ sPrev' = sLast
    /\ sCalls' = sCalls + 1
    /\ UNCHANGED <<pipeVars, auxVars>>

\* the process ends and a new one connects: an open transaction is rolled back
StoreReopen ==
    /\ sCalls < MaxCalls
    /\ sConn' = sDisk
    /\ sLast' = [op |-> "reopen", batch |-> <<>>, count |-> 0, raised |-> FALSE]
    /\ sPrev' = sLast
    /\ sCalls' = sCalls + 1
    /\ UNCHANGED <<sDisk, pipeVars, auxVars>>

NextStore == StoreInitDb \/ StoreAdd \/ StoreReopen

SpecStore == Init /\ [][NextStore]_vars

(***************************************************************************)
(* Spec: the pipeline.  One action per collaborator call of __main__,      *)
(* together with the local code that follows it up to the next call.       *)
(***************************************************************************)
\* The process exits: its variables are gone, archive.db stays on the disk.
\* What the run did is kept, for observation, until the runner's next run.
Exited(rec, how) ==
    [NoRun EXCEPT !.outcome = how, !.llm = rec.llm, !.puts = rec.puts,
                  !.wrote = rec.wrote, !.raw_news = rec.raw_news]

\* the run ends by falling through to conn.close(): exit status 0
Finish(r, rec) == run' = [run EXCEPT ![r] = Exited(rec, "ok")]

\* an exception nobody catches ends the process with a traceback; of the
\* run only what it had published is kept
Abort(r, rec) ==
    run' = [run EXCEPT ![r] =
              [NoRun EXCEPT !.outcome = "error", !.wrote = rec.wrote]]

\* the script is started; the credential check
Start(r) ==
    /\ run[r].pc = "idle"
    /\ runs < MaxRuns
    /\ runs' = runs + 1
    /\ \E env \in Environments :
       \E rec \in {[NoRun EXCEPT !.missing = \E k \in DOMAIN env : ~env[k]]} :
         IF CredentialsPresent(env)
         THEN run' = [run EXCEPT ![r] =
                        [rec EXCEPT !.pc = "download", !.outcome = "running"]]
         ELSE \* prints the error; the else branch is skipped
              run' = [run EXCEPT ![r] = [rec EXCEPT !.outcome = "ok"]]
    /\ UNCHANGED <<remoteDb, remoteJson, localDb, storeVars, auxVars>>

\* get_repo, get_file_from_github(DB_FILE_PATH), the write of archive.db,
\* sqlite3.connect and init_db
Download(r) ==
    /\ run[r].pc = "download"
    /\ \/ \* the repository cannot be reached
          /\ Abort(r, run[r])
          /\ UNCHANGED localDb
       \/ /\ run' = [run EXCEPT ![r].db_sha = Sha(remoteDb),
                                ![r].jsonAtDownload = Sha(remoteJson),
                                ![r].pc = "fetch"]
          /\ localDb' = [localDb EXCEPT ![r] =
                 IF remoteDb.exists
                 THEN [exists |-> TRUE, rows |-> remoteDb.content]
                 ELSE \* no download: connect opens whatever file is there
                      [exists |-> TRUE, rows |-> localDb[r].rows]]
    /\ UNCHANGED <<remoteDb, remoteJson, runs, storeVars, auxVars>>

\* fetch_news and the test of raw_news
Fetch(r) ==
    /\ run[r].pc = "fetch"
    /\ \/ Abort(r, run[r])               \* raise_for_status
       \/ \E raw_news \in FetchSizes :
            IF HasArticles(raw_news)
            THEN run' = [run EXCEPT ![r].raw_news = raw_news,
                                    ![r].pc = "classify"]
            ELSE Finish(r, [run[r] EXCEPT !.raw_news = raw_news])
    /\ UNCHANGED <<remoteDb, remoteJson, localDb, runs, storeVars, auxVars>>

\* reformat_with_gemini, the filter, add_articles_to_db,
\* get_all_articles_from_db and the slice
Classify(r) ==
    /\ run[r].pc = "classify"
    /\ \/ \* generate_content raises
          /\ HasArticles(run[r].raw_news)
          /\ Abort(r, run[r])
          /\ UNCHANGED localDb
       \/ \* reformat_with_gemini returns [] without asking the classifier
          /\ ~HasArticles(run[r].raw_news)
          /\ Finish(r, run[r])
          /\ UNCHANGED localDb
       \/ /\ HasArticles(run[r].raw_news)
          /\ \E resp \in Responses :
            \E processed_data \in {ParseResponse(resp)} :
            \E relevant_new_data \in {Relevant(processed_data.items)} :
            \E rec \in {[run[r] EXCEPT !.llm =
                          IF ~resp.parses THEN "malformed"
                          ELSE IF resp.items = <<>> THEN "empty" ELSE "list"]} :
              IF ~Truthy(processed_data) \/ relevant_new_data = <<>>
              THEN \* neither branch has anything to do
                   /\ Finish(r, rec)
                   /\ UNCHANGED localDb
              ELSE \E res \in {add_articles_to_db(localDb[r].rows,
                                                  relevant_new_data)} :
                     IF res.raised
                     THEN \* KeyError before the commit: rolled back
                          /\ Abort(r, rec)
                          /\ UNCHANGED localDb
                     ELSE /\ localDb' = [localDb EXCEPT ![r].rows = res.rows]
                          /\ run' = [run EXCEPT ![r] =
                               [rec EXCEPT !.newly_added_count = res.count,
                                           !.live_json_data =
                                               Slice(get_all_articles_from_db(res.rows),
                                                     LIVE_ARTICLE_LIMIT),
                                           !.pc = "get_json"]]
    /\ UNCHANGED <<remoteDb, remoteJson, runs, storeVars, auxVars>>

\* get_file_from_github(JSON_FILE_PATH) right before the commit
GetJson(r) ==
    /\ run[r].pc = "get_json"
    /\ \/ Abort(r, run[r])
       \/ run' = [run EXCEPT ![r].json_sha = Sha(remoteJson),
                             ![r].pc = "commit_json"]
    /\ UNCHANGED <<remoteDb, remoteJson, localDb, runs, storeVars, auxVars>>

\* commit_file_to_github(JSON_FILE_PATH, json.dumps(live_json_data), json_sha)
CommitJson(r) ==
    /\ run[r].pc = "commit_json"
    /\ LET rec == [run[r] EXCEPT !.puts = @ + 1]
       IN  \/ \* the request fails
              /\ Abort(r, rec)
              /\ UNCHANGED remoteJson
           \/ IF PutAccepted(remoteJson, rec.json_sha)
              THEN /\ remoteJson' = [exists |-> TRUE,
                                     content |-> rec.live_json_data]
                   /\ run' = [run EXCEPT ![r] =
                        [rec EXCEPT !.wrote = @ \cup {"json"},
                                    !.pc = "commit_db"]]
              ELSE \* GithubException
                   /\ Abort(r, rec)
                   /\ UNCHANGED remoteJson
    /\ UNCHANGED <<remoteDb, localDb, runs, storeVars, auxVars>>

\* commit_file_to_github(DB_FILE_PATH, <bytes of archive.db>, db_sha)
CommitDb(r) ==
    /\ run[r].pc = "commit_db"
    /\ LET rec == [run[r] EXCEPT !.puts = @ + 1]
       IN  \/ /\ Abort(r, rec)
              /\ UNCHANGED remoteDb
           \/ IF PutAccepted(remoteDb, rec.db_sha)
              THEN /\ remoteDb' = [exists |-> TRUE, content |-> localDb[r].rows]
                   /\ Finish(r, [rec EXCEPT !.wrote = @ \cup {"db"}])
              ELSE /\ Abort(r, rec)
                   /\ UNCHANGED remoteDb
    /\ UNCHANGED <<remoteJson, localDb, runs, storeVars, auxVars>>

Next ==
    \E r \in Runners :
        \/ Start(r)
        \/ Download(r)
        \/ Fetch(r)
        \/ Classify(r)
        \/ GetJson(r)
        \/ CommitJson(r)
        \/ CommitDb(r)

Spec == Init /\ [][Next]_vars

(***************************************************************************)
(* SpecRetry: a merge that fails part-way, the end of that run, and the    *)
(* merge of the same batch by the next run.                                *)
(***************************************************************************)
\* the tables a committed archive can hold
Tables ==
    {res.rows : res \in {x \in {add_articles_to_db(<<>>, b) : b \in Batches} :
                            ~x.raised}}

InitRetry ==
    /\ InitMain
    /\ retry \in {[NoRetry EXCEPT !.phase = "start", !.before = t, !.disk = t,
                                  !.conn = t, !.batch = b] :
                     t \in Tables, b \in Batches \ {<<>>}}
    /\ proj = NoProj
    /\ seed = NoSeed

\* add_articles_to_db raises inside the loop: a KeyError of its own, or a
\* storage error at the k-th INSERT.  Nothing is committed.
RetryAttempt ==
    /\ retry.phase = "start"
    /\ \E res \in {Interrupted(retry.conn, retry.batch, k) :
                      k \in 1..Len(retry.batch)}
                  \cup {x \in {add_articles_to_db(retry.conn, retry.batch)} :
                           x.raised} :
         retry' = [retry EXCEPT !.phase = "failed", !.conn = res.rows,
                                !.partial = res.count]
    /\ UNCHANGED <<pipeVars, storeVars, proj, seed>>

\* the exception ends the process: the open transaction is rolled back and
\* nothing was pushed; the next run connects to the archive as committed
RetryExit ==
    /\ retry.phase = "failed"
    /\ retry' = [retry EXCEPT !.phase = "exited", !.conn = retry.disk]
    /\ UNCHANGED <<pipeVars, storeVars, proj, seed>>

\* the next run merges the same batch
RetryMerge ==
    /\ retry.phase = "exited"
    /\ \E res \in {add_articles_to_db(retry.conn, retry.batch)} :
         retry' = IF res.raised
                  THEN [retry EXCEPT !.phase = "failed", !.conn = res.rows,
                                     !.partial = res.count]
                  ELSE [retry EXCEPT !.phase = "merged", !.conn = res.rows,
                                     !.disk = res.rows, !.count = res.count]
    /\ UNCHANGED <<pipeVars, storeVars, proj, seed>>

NextRetry == RetryAttempt \/ RetryExit \/ RetryMerge

SpecRetry == InitRetry /\ [][NextRetry]_vars

(***************************************************************************)
(* SpecSlice: the live-view projection as a function of archive and limit. *)
(***************************************************************************)
MaxLimit == 2

Archives == {add_articles_to_db(<<>>, b).rows : b \in Answers}

InitSlice ==
    /\ InitMain
    /\ retry = NoRetry
    /\ proj \in {[NoProj EXCEPT !.archive = t, !.limit = n] :
                    t \in Archives, n \in (0 - MaxLimit)..MaxLimit}
    /\ seed = NoSeed

\* all_articles = get_all_articles_from_db(conn); all_articles[:limit]
Project ==
    /\ ~proj.done
    /\ proj' = [proj EXCEPT
                  !.live = Slice(get_all_articles_from_db(proj.archive),
                                 proj.limit),
                  !.done = TRUE]
    /\ UNCHANGED <<pipeVars, storeVars, retry, seed>>

SpecSlice == InitSlice /\ [][Project]_vars

(***************************************************************************)
(* SpecSeed: seed_database.py.                                             *)
(***************************************************************************)
SeedFiles == {NoJson} \cup {[exists |-> TRUE, data |-> b] : b \in Batches}

SeedTables == {NoTable} \cup {[exists |-> TRUE, rows |-> t] : t \in Tables}

\* the names bound when the try block runs
SeedNames ==
    {"sqlite3", "json", "DB_FILE", "JSON_FILE", "init_db",
     "add_articles_to_db", "conn", "f", "old_data"}

\* evaluating a name that is not bound raises NameError
Bound(name) == name \in SeedNames

\* the script's own add_articles_to_db: the same loop and commit, no count
seed_add_articles_to_db(rows, articles) ==
    [rows |-> add_articles_to_db(rows, articles).rows,
     raised |-> add_articles_to_db(rows, articles).raised]

InitSeed ==
    /\ InitMain
    /\ retry = NoRetry
    /\ proj = NoProj
    /\ seed \in {[NoSeed EXCEPT !.pc = "start", !.file = f, !.disk = d] :
                    f \in SeedFiles, d \in SeedTables}

\* sqlite3.connect(DB_FILE); init_db(conn)
SeedConnect ==
    /\ seed.pc = "start"
    /\ seed' = [seed EXCEPT !.pc = "try",
                            !.conn = [exists |-> TRUE, rows |-> seed.disk.rows],
                            !.disk = [exists |-> TRUE, rows |-> seed.disk.rows]]
    /\ UNCHANGED <<pipeVars, storeVars, retry, proj>>

\* the try block with its except clauses: open and json.load, the print
\* that evaluates len(old_aata), add_articles_to_db, the print of success
SeedTry ==
    /\ seed.pc = "try"
    /\ IF ~seed.file.exists
       THEN seed' = [seed EXCEPT !.pc = "finally", !.out = "not found"]
       ELSE IF ~Bound("old_aata")
       THEN seed' = [seed EXCEPT !.pc = "finally", !.out = "error"]
       ELSE \E res \in {seed_add_articles_to_db(seed.conn.rows,
                                                 seed.file.data)} :
              seed' = IF res.raised
                      THEN [seed EXCEPT !.pc = "finally", !.out = "error",
                                        !.conn.rows = res.rows]
                      ELSE [seed EXCEPT !.pc = "finally", !.out = "success",
                                        !.conn.rows = res.rows,
                                        !.disk.rows = res.rows]
    /\ UNCHANGED <<pipeVars, storeVars, retry, proj>>

\* finally: conn.close(); what was not committed is gone
SeedClose ==
    /\ seed.pc = "finally"
    /\ seed' = [seed EXCEPT !.pc = "done", !.conn = seed.disk]
    /\ UNCHANGED <<pipeVars, storeVars, retry, proj>>

NextSeed == SeedConnect \/ SeedTry \/ SeedClose

SpecSeed == InitSeed /\ [][NextSeed]_vars

(***************************************************************************)
(* Properties of the archive store (SpecStore).                            *)
(***************************************************************************)
Unique(rows) ==
    \A i, j \in 1..Len(rows) : rows[i].headline = rows[j].headline => i = j

\* C1: headline uniqueness.  After any sequence of init_db and
\* add_articles_to_db calls, whatever the batches (a batch may repeat a
\* headline), the articles table holds at most one row per headline, in the
\* connection's view and in the committed file.
C1_HeadlineUnique == Unique(sConn.rows) /\ Unique(sDisk.rows)

\* a call whose batch names one headline twice has returned, one row inserted
C1_Witness ==
    /\ sLast.op = "add" /\ ~sLast.raised
    /\ Len(sLast.batch) = 2
    /\ sLast.batch[1].headline = sLast.batch[2].headline
    /\ sLast.batch[1] # sLast.batch[2]
    /\ sLast.count = 1

\* C2: first-write-wins.  A call of add_articles_to_db removes no stored row
\* and changes no field of one: every row of the table before the call is a
\* row of the table after it, also when a candidate carries a stored headline
\* with other field values; a row the call adds has a headline that was not
\* stored before.
C2_FirstWriteWins ==
    [][(sCalls' # sCalls /\ sLast'.op = "add") =>
          /\ Range(sConn.rows) \subseteq Range(sConn'.rows)
          /\ Range(sDisk.rows) \subseteq Range(sDisk'.rows)
          /\ \A row \in Range(sConn'.rows) \ Range(sConn.rows) :
                ~HasHeadline(sConn.rows, row.headline)]_vars

\* A1 is stored and a later call offered its headline with other values
C2_Witness ==
    /\ sLast.op = "add" /\ sLast.batch = <<A1x>> /\ sLast.count = 0
    /\ RowOf(A1) \in Range(sConn.rows)
    /\ RowOf(A1x) \notin Range(sConn.rows)

\* C10: idempotent merge.  When add_articles_to_db is called again with the
\* batch of the call before it, the table holds the same set of rows after
\* the second call as before it, and the second call counts zero insertions.
C10_IdempotentMerge ==
    [][(sCalls' # sCalls /\ sLast.op = "add" /\ sLast'.op = "add"
            /\ sLast'.batch = sLast.batch) =>
          /\ Range(sConn'.rows) = Range(sConn.rows)
          /\ sLast'.count = 0]_vars

\* the same batch was merged twice in a row; the first call inserted rows
C10_Witness ==
    /\ sLast.op = "add" /\ sPrev.op = "add"
    /\ sLast.batch = sPrev.batch
    /\ sPrev.count > 0 /\ ~sPrev.raised
    /\ sLast.count = 0

\* C11: merge count.  A call of add_articles_to_db that returns gives back
\* the number of rows it inserted, the size of the table after the call
\* minus its size before; a batch of one candidate whose headline is stored
\* returns 0 and leaves the table as it was.
C11_MergeCount ==
    [][(sCalls' # sCalls /\ sLast'.op = "add" /\ ~sLast'.raised) =>
          /\ sLast'.count = Len(sConn'.rows) - Len(sConn.rows)
          /\ (Len(sLast'.batch) = 1
                  /\ HasHeadline(sConn.rows, sLast'.batch[1].headline))
                => (sLast'.count = 0 /\ sConn'.rows = sConn.rows)]_vars

\* a call was given a stored headline and a new one, and returned 1
C11_Witness ==
    /\ sLast.op = "add" /\ ~sLast.raised
    /\ sPrev.op = "add" /\ sPrev.batch = <<A1>> /\ sPrev.count = 1
    /\ sLast.batch = <<A1x, A2>> /\ sLast.count = 1
    /\ Len(sConn.rows) = 2

(***************************************************************************)
(* Properties of the pipeline (Spec).                                      *)
(***************************************************************************)
Records(file) == Range(file.content)

\* C3: the remote archive never shrinks.  Every step of every run, aborted
\* or overlapping with another run, leaves in DashData/archive.db every
\* record that was there before the step.
C3_ArchiveNeverShrinks ==
    [][/\ remoteDb.exists => remoteDb'.exists
       /\ Records(remoteDb) \subseteq Records(remoteDb')]_vars

\* each runner has written the archive, the second over the first's
C3_Witness ==
    /\ \A r \in Runners : "db" \in run[r].wrote
    /\ Len(remoteDb.content) >= 2

\* C4: optimistic concurrency on publish (as claimed).  A run's write of the
\* live view, and its write of the archive, is accepted only when the file
\* in the repository still has the version it had at the run's download
\* step.
C4_Orig ==
    [][\A r \in Runners :
         /\ ("json" \in run'[r].wrote /\ "json" \notin run[r].wrote)
               => Sha(remoteJson) = run[r].jsonAtDownload
         /\ ("db" \in run'[r].wrote /\ "db" \notin run[r].wrote)
               => Sha(remoteDb) = run[r].db_sha]_vars

\* C5: an aborted run has published nothing (as claimed).  A run that ended
\* with an exception has written neither remote file.
C5_Orig ==
    \A r \in Runners : run[r].outcome = "error" => run[r].wrote = {}

\* C6: the live view is a subset of the archive (as claimed).  Whenever no
\* run is in progress, every record of DashData/data.json is, field for
\* field, a record of DashData/archive.db.
C6_Orig ==
    (\A r \in Runners : run[r].pc = "idle") =>
        \A a \in Records(remoteJson) :
            \E row \in Records(remoteDb) : ArticleOf(row) = a

\* C7: no-op on an all-duplicate batch (as claimed).  A run that downloaded
\* the archive and whose merge inserted zero records attempts no remote
\* write.
C7_Orig ==
    \A r \in Runners :
        (run[r].newly_added_count = 0 /\ run[r].db_sha # NoneSha)
            => run[r].puts = 0

\* C8: malformed classifier output.  The step in which a run receives a
\* classifier text that does not parse ends the run; it leaves the local
\* archive and both remote files (so their version tokens) as they were,
\* and the run has attempted and made no remote write.
C8_MalformedNoWrite ==
    [][\A r \in Runners : run'[r].llm = "malformed" =>
          /\ run'[r].pc = "idle"
          /\ localDb'[r] = localDb[r]
          /\ run'[r].puts = 0 /\ run'[r].wrote = {}
          /\ run[r].llm # "malformed" =>
                (Sha(remoteDb') = Sha(remoteDb)
                    /\ Sha(remoteJson') = Sha(remoteJson))]_vars

\* a run got a text that does not parse while the repository held an archive
C8_Witness ==
    \E r \in Runners :
        /\ run[r].llm = "malformed" /\ run[r].pc = "idle"
        /\ remoteDb.exists /\ remoteJson.exists
        /\ localDb[r].rows = remoteDb.content

\* C9: fresh-archive bootstrap (as claimed).  A run whose download found no
\* archive in the repository connects to an empty local archive and holds
\* no version token for the archive write (db_sha is None).
C9_Orig ==
    \A r \in Runners :
        (run[r].pc = "fetch" /\ run[r].db_sha = NoneSha) =>
            localDb[r].rows = <<>>

\* the run has merged and computed its live view
Projected(r) == run[r].pc \in {"get_json", "commit_json", "commit_db"}

Min(a, b) == IF a < b THEN a ELSE b

\* C12: live view bound.  In every run that computed a live view, the length
\* of the live view is the smaller of the number of records in the merged
\* archive and LIVE_ARTICLE_LIMIT.
C12_LiveViewBound ==
    \A r \in Runners : Projected(r) =>
        Len(run[r].live_json_data)
            = Min(Len(localDb[r].rows), LIVE_ARTICLE_LIMIT)

\* a run whose merged archive holds more records than the limit
C12_Witness ==
    \E r \in Runners :
        /\ Projected(r)
        /\ Len(localDb[r].rows) > LIVE_ARTICLE_LIMIT
        /\ Len(run[r].live_json_data) = LIVE_ARTICLE_LIMIT

\* C13: live view ordering.  The live view of a run is the leading part of
\* what get_all_articles_from_db returns for the merged archive, and the
\* date of each of its records is not earlier than the date of the next one,
\* whatever the order of the merges.
C13_LiveViewOrdered ==
    \A r \in Runners : Projected(r) =>
        LET live == run[r].live_json_data
        IN  /\ live = SubSeq(get_all_articles_from_db(localDb[r].rows),
                             1, Len(live))
            /\ \A i \in 1..(Len(live) - 1) :
                  DateRank(live[i].date) >= DateRank(live[i + 1].date)

\* the later of two records was merged after the earlier one and comes first
C13_Witness ==
    \E r \in Runners :
        /\ Projected(r)
        /\ Len(run[r].live_json_data) = 2
        /\ DateRank(localDb[r].rows[1].date) < DateRank(localDb[r].rows[2].date)
        /\ run[r].live_json_data[1] = ArticleOf(localDb[r].rows[2])

\* C14: irrelevant filtering.  No record of type "irrelevant" is ever in a
\* local archive, in the remote archive, in a computed live view or in the
\* published live view.
C14_NoIrrelevantStored ==
    /\ \A r \in Runners :
          /\ \A row \in Range(localDb[r].rows) : row.type # "irrelevant"
          /\ \A a \in Range(run[r].live_json_data) : a.type # "irrelevant"
    /\ \A row \in Records(remoteDb) : row.type # "irrelevant"
    /\ \A a \in Records(remoteJson) : a.type # "irrelevant"

\* the classifier answered with records, all of them irrelevant: the run
\* ended without a merge
C14_Witness ==
    \E r \in Runners :
        /\ run[r].pc = "idle" /\ run[r].outcome = "ok"
        /\ run[r].llm = "list" /\ run[r].wrote = {}
        /\ localDb[r].exists /\ localDb[r].rows = <<>>

\* C15: an empty fetch is a no-op.  When fetch_news returns no article the
\* run has ended normally, the classifier was not asked and no remote write
\* was attempted.
C15_EmptyFetchNoOp ==
    \A r \in Runners : run[r].raw_news = 0 =>
        /\ run[r].pc = "idle" /\ run[r].outcome = "ok"
        /\ run[r].llm = "unset"
        /\ run[r].puts = 0 /\ run[r].wrote = {}

\* a run fetched nothing while the repository held an archive
C15_Witness ==
    \E r \in Runners :
        /\ run[r].raw_news = 0 /\ run[r].outcome = "ok"
        /\ remoteDb.exists /\ localDb[r].rows = remoteDb.content

\* C16: error propagation (as claimed).  A run that found a credential
\* missing or got a classifier text that does not parse ends with a failure;
\* a run that ended normally without publishing fetched nothing or got a
\* list from the classifier (all filtered or all duplicates).
C16_Orig ==
    \A r \in Runners : run[r].pc = "idle" =>
        /\ (run[r].missing \/ run[r].llm = "malformed")
              => run[r].outcome = "error"
        /\ (run[r].outcome = "ok" /\ run[r].wrote = {})
              => (run[r].raw_news = 0 \/ run[r].llm \in {"empty", "list"})

\* C17: a missing credential means no partial execution.  A run started
\* with a credential absent ends at once: no remote read, no fetch, no
\* classifier call, no remote write, and the local archive is neither
\* created nor changed.
C17_MissingCredentialNoExecution ==
    [][\A r \in Runners : run'[r].missing =>
          /\ run'[r] = [NoRun EXCEPT !.outcome = "ok", !.missing = TRUE]
          /\ localDb'[r] = localDb[r]
          /\ ~run[r].missing => UNCHANGED <<remoteDb, remoteJson>>]_vars

\* a runner that merged in an earlier run was started without a credential
C17_Witness ==
    \E r \in Runners :
        /\ run[r].missing /\ run[r].pc = "idle"
        /\ localDb[r].rows # <<>>

C19_IdempotentRetry ==
    retry.phase = "merged" =>
        /\ retry.conn = add_articles_to_db(retry.before, retry.batch).rows
        /\ retry.disk = retry.conn
        /\ Unique(retry.conn)
        /\ SubSeq(retry.conn, 1, Len(retry.before)) = retry.before
        /\ \A i \in 1..Len(retry.batch) :
              HasHeadline(retry.conn, retry.batch[i].headline)

\* the archive held one record; the first attempt inserted a new one and
\* then failed; the retry inserted that record again and skipped the other
C19_Witness ==
    /\ retry.phase = "merged"
    /\ retry.partial = 1
    /\ Len(retry.before) = 1
    /\ retry.count = 1
    /\ Len(retry.conn) = 2

\* C20: seeding.  When the seed script has run with a readable old_data.json
\* that holds a list of well-formed records, the archive table holds a record
\* for every headline of the file and the run reported success.
C20_Orig ==
    (/\ seed.pc = "done"
     /\ seed.file.exists
     /\ \A i \in 1..Len(seed.file.data) : WellFormed(seed.file.data[i])) =>
        /\ seed.out = "success"
        /\ \A i \in 1..Len(seed.file.data) :
              HasHeadline(seed.disk.rows, seed.file.data[i].headline)

====
